---- MODULE Spec2Model ----
(***************************************************************************)
(* Model of app.py, the supplier search page: the column aliaser           *)
(* (standardize_columns over _normalize_col and COL_ALIASES), the text     *)
(* matcher (normalize_text, tokenize_query, match_row) and the page script *)
(* itself (workbook loading, sheet selection, search, result states).      *)
(*                                                                         *)
(* A string is a sequence of characters, a character a one-element token:  *)
(* "a", "B", " ", "/", and the named tokens below for characters that are  *)
(* not plain ASCII.  A cell of a table is None (pandas NaN) or Some(s).    *)
(***************************************************************************)
EXTENDS Integers, Sequences, FiniteSets, TLC

VARIABLES
    pc,               \* position of the script / of the aliaser driver
    localExists,      \* os.path.exists(EXCEL_FILENAME)
    localReadable,    \* whether pd.read_excel on the local path succeeds
    up,               \* st.file_uploader's value: "none", "good", "corrupt"
    workbook,         \* None, or the ordered mapping sheet name -> table
    source,           \* which loader produced workbook: "none", "local", "upload"
    attempts,         \* the load attempts of this run, in order
    executed,         \* the downstream blocks this run has executed
    shown,            \* the messages this run has shown, in order
    selected_country, \* the selectbox's value
    raw_df,           \* the raw table handed to standardize_columns
    df,               \* outcome of standardize_columns(raw_df)
    mapping,          \* the rename mapping built by the last call (line 74-82)
    iterBefore,       \* what is known of the iteration order of the variant sets
    neededIter,       \* iteration order of set(DISPLAY_ORDER + ["productos"])
    df_again,         \* outcome of standardize_columns on its own output
    q,                \* the text_input's value
    terms,            \* tokenize_query(q) if q else []
    results           \* the result table (rows over DISPLAY_ORDER)

vars == << pc, localExists, localReadable, up, workbook, source, attempts,
           executed, shown, selected_country, raw_df, df, mapping, iterBefore,
           neededIter, df_again, q, terms, results >>

(***************************************************************************)
(* Bounds of the model.                                                    *)
(***************************************************************************)
MaxCols == 2   \* columns of a raw table handed to the aliaser
MaxRows == 1   \* rows of a raw table handed to the aliaser
MaxSheetRows == 2   \* rows of a sheet of the workbook of a page run

(***************************************************************************)
(* Characters.                                                             *)
(***************************************************************************)
SP == " "
TAB == "tab"        \* U+0009
ZWSP == "zwsp"      \* U+200B, zero-width space
ACUTE == "acute"    \* U+0301, combining acute accent

\* what str.strip() removes and what \s matches
Whitespace == {SP, TAB}

UpperLetters == << "A","B","C","D","E","F","G","H","I","J","K","L","M",
                   "N","O","P","Q","R","S","T","U","V","W","X","Y","Z" >>
LowerLetters == << "a","b","c","d","e","f","g","h","i","j","k","l","m",
                   "n","o","p","q","r","s","t","u","v","w","x","y","z" >>
\* precomposed accented vowels: "a'" is U+00E1, "A'" is U+00C1, ...
AccentedLower == << "a'", "e'", "i'", "o'", "u'" >>
AccentedUpper == << "A'", "E'", "I'", "O'", "U'" >>
PlainLower == << "a", "e", "i", "o", "u" >>
PlainUpper == << "A", "E", "I", "O", "U" >>

IndexOf(seq, c) == CHOOSE i \in 1..Len(seq) : seq[i] = c
Range(seq) == { seq[i] : i \in 1..Len(seq) }

UpperSet == Range(UpperLetters)
LowerSet == Range(LowerLetters)
AccentedUpperSet == Range(AccentedUpper)
AccentedLowerSet == Range(AccentedLower)

None == << >>
Some(s) == << s >>

RECURSIVE Flatten(_)
Flatten(ss) == IF ss = << >> THEN << >> ELSE Head(ss) \o Flatten(Tail(ss))

RECURSIVE LStrip(_)
LStrip(s) ==
    IF s = << >> THEN << >>
    ELSE IF Head(s) \in Whitespace THEN LStrip(Tail(s)) ELSE s

RECURSIVE RStrip(_)
RStrip(s) ==
    IF s = << >> THEN << >>
    ELSE IF s[Len(s)] \in Whitespace THEN RStrip(SubSeq(s, 1, Len(s) - 1)) ELSE s

\* str.strip()
Strip(s) == RStrip(LStrip(s))

\* str.lower() / str.casefold() of one character
LowerChar(c) ==
    IF c \in UpperSet THEN LowerLetters[IndexOf(UpperLetters, c)]
    ELSE IF c \in AccentedUpperSet THEN AccentedLower[IndexOf(AccentedUpper, c)]
    ELSE c

\* str.lower()
Lower(s) == << >> \o [ i \in 1..Len(s) |-> LowerChar(s[i]) ]

\* the five replacements of an accented vowel by the plain one (line 36)
ReplaceAccents(s) ==
    << >> \o [ i \in 1..Len(s) |->
        IF s[i] \in AccentedLowerSet
        THEN PlainLower[IndexOf(AccentedLower, s[i])] ELSE s[i] ]

\* .replace("/", " /")
ReplaceSlash(s) ==
    Flatten([ i \in 1..Len(s) |-> IF s[i] = "/" THEN << SP, "/" >> ELSE << s[i] >> ])

\* .replace("  ", " "): one left-to-right pass over non-overlapping pairs
RECURSIVE ReplaceDoubleSpace(_)
ReplaceDoubleSpace(s) ==
    IF Len(s) < 2 THEN s
    ELSE IF s[1] = SP /\ s[2] = SP
         THEN << SP >> \o ReplaceDoubleSpace(SubSeq(s, 3, Len(s)))
         ELSE << s[1] >> \o ReplaceDoubleSpace(Tail(s))

\* _normalize_col (headers are strings, as read_excel gives for text headers)
NormalizeCol(col) ==
    ReplaceDoubleSpace(ReplaceSlash(ReplaceAccents(Lower(Strip(col)))))

(***************************************************************************)
(* The alias dictionary and the display order.                             *)
(***************************************************************************)
T_nombre == <<"n","o","m","b","r","e">>
T_web == <<"w","e","b">>
T_telefono == <<"t","e","l","e","f","o","n","o">>
T_email == <<"e","m","a","i","l">>
T_pais == <<"p","a","i","s">>
T_provincia_estado == <<"p","r","o","v","i","n","c","i","a"," ","/"," ","e","s","t","a","d","o">>
T_ciudad == <<"c","i","u","d","a","d">>
T_direccion == <<"d","i","r","e","c","c","i","o","n">>
T_productos == <<"p","r","o","d","u","c","t","o","s">>

\* the keys of COL_ALIASES in the dictionary's (insertion) order
TARGETS == << T_nombre, T_web, T_telefono, T_email, T_pais,
              T_provincia_estado, T_ciudad, T_direccion, T_productos >>

COL_ALIASES(target) ==
  CASE target = T_nombre ->
        { <<"n","o","m","b","r","e">>,
          <<"p","r","o","v","e","e","d","o","r">>,
          <<"r","a","z","o","n"," ","s","o","c","i","a","l">>,
          <<"r","a","z","o","n"," ","s","o","c","i","a","l"," ","/"," ","n","o","m","b","r","e">> }
    [] target = T_web ->
        { <<"w","e","b">>,
          <<"s","i","t","i","o"," ","w","e","b">>,
          <<"p","a","g","i","n","a">>,
          <<"p","a","g","i","n","a"," ","w","e","b">>,
          <<"w","e","b","s","i","t","e">>,
          <<"u","r","l">> }
    [] target = T_telefono ->
        { <<"t","e","l","e","f","o","n","o">>,
          <<"t","e","l">>,
          <<"w","h","a","t","s","a","p","p">>,
          <<"w","a">>,
          <<"t","e","l","e","f","o","n","o","/","w","h","a","t","s","a","p","p">> }
    [] target = T_email ->
        { <<"e","m","a","i","l">>,
          <<"m","a","i","l">>,
          <<"e","-","m","a","i","l">>,
          <<"c","o","r","r","e","o">>,
          <<"c","o","r","r","e","o"," ","e","l","e","c","t","r","o","n","i","c","o">> }
    [] target = T_pais ->
        { <<"p","a","i","s">> }
    [] target = T_provincia_estado ->
        { <<"p","r","o","v","i","n","c","i","a"," ","/"," ","e","s","t","a","d","o">>,
          <<"p","r","o","v","i","n","c","i","a">>,
          <<"e","s","t","a","d","o">>,
          <<"p","r","o","v","i","n","c","i","a","-","e","s","t","a","d","o">>,
          <<"p","r","o","v","i","n","c","i","a","/","e","s","t","a","d","o">> }
    [] target = T_ciudad ->
        { <<"c","i","u","d","a","d">>,
          <<"l","o","c","a","l","i","d","a","d">> }
    [] target = T_direccion ->
        { <<"d","i","r","e","c","c","i","o","n">>,
          <<"d","i","r","e","c">>,
          <<"d","o","m","i","c","i","l","i","o">> }
    [] target = T_productos ->
        { <<"p","r","o","d","u","c","t","o","s">>,
          <<"p","r","o","d","u","c","t","o">>,
          <<"i","t","e","m","s">>,
          <<"c","a","t","e","g","o","r","i","a","s">>,
          <<"c","a","t","e","g","o","r","i","a">> }
    [] OTHER -> {}

DISPLAY_ORDER == << T_nombre, T_web, T_telefono, T_email, T_pais,
                    T_provincia_estado, T_ciudad, T_direccion >>

(***************************************************************************)
(* Tables.  A table is [none, cols, rows]: none marks Python's None, cols  *)
(* is the sequence of headers, rows the sequence of rows, each a sequence  *)
(* of cells aligned with cols.                                             *)
(***************************************************************************)
NoneDF == [ none |-> TRUE, cols |-> << >>, rows |-> << >> ]
Frame(cols, rows) == [ none |-> FALSE, cols |-> cols, rows |-> rows ]

\* df is None or df.empty (pandas: any axis of length 0)
IsNoneOrEmpty(t) == t.none \/ Len(t.cols) = 0 \/ Len(t.rows) = 0

\* the normalized header of each column, in column order (line 72)
NormalizedHeaders(cols) == << >> \o [ i \in 1..Len(cols) |-> NormalizeCol(cols[i]) ]

\* the keys of cols_norm (line 72)
ColsNormKeys(t) == Range(NormalizedHeaders(t.cols))

\* a mutant of cols_norm[k]: the first column with that key is kept
ColsNormFirst(cols, keys, k) ==
    cols[CHOOSE i \in 1..Len(cols) :
           keys[i] = k /\ \A j \in 1..Len(cols) : keys[j] = k => j >= i]

\* cols_norm[k], keys being the normalized headers of cols: the dict
\* comprehension keeps the last column with that key
ColsNorm(cols, keys, k) ==
    cols[CHOOSE i \in 1..Len(cols) :
           keys[i] = k /\ \A j \in 1..Len(cols) : keys[j] = k => j <= i]

(***************************************************************************)
(* The loop of lines 75-82.  `for v in variants` iterates a set of         *)
(* strings: the order is fixed within a process and arbitrary across       *)
(* processes (string hashing is seeded per process).  A pick gives, for    *)
(* each target, the variant the loop finds first among those present in    *)
(* cols_norm (NoVariant when none is).  iterBefore records the order the   *)
(* picks so far have revealed, so that two calls of one process agree.     *)
(***************************************************************************)
NoVariant == << >>

PresentVariants(keys, target) == COL_ALIASES(target) \cap keys

PickOptions(keys, target) ==
    IF PresentVariants(keys, target) = {} THEN { NoVariant }
    ELSE PresentVariants(keys, target)

RECURSIVE PickSeqs(_, _)
PickSeqs(keys, n) ==
    IF n = 0 THEN { << >> }
    ELSE { Append(p, v) : p \in PickSeqs(keys, n - 1),
                          v \in PickOptions(keys, TARGETS[n]) }

\* the picks of one call on a table with these keys
Picks(keys) == PickSeqs(keys, Len(TARGETS))

RECURSIVE TransitiveClosure(_)
TransitiveClosure(r) ==
    LET step == r \cup { << pq[1][1], pq[2][2] >> :
                         pq \in { x \in r \X r : x[1][2] = x[2][1] } }
    IN  IF step = r THEN r ELSE TransitiveClosure(step)

\* the pick agrees with the iteration order revealed so far
ConsistentPick(pick, keys, before) ==
    \A n \in 1..Len(TARGETS) :
        pick[n] # NoVariant =>
            \A w \in PresentVariants(keys, TARGETS[n]) \ { pick[n] } :
                << w, pick[n] >> \notin before

\* the order the pick reveals: the picked variant comes before the others present
RevealedOrder(pick, keys, before) ==
    TransitiveClosure(before \cup
        UNION { { << pick[n], w >> : w \in PresentVariants(keys, TARGETS[n]) \ { pick[n] } } :
                n \in { m \in 1..Len(TARGETS) : pick[m] # NoVariant } })

(***************************************************************************)
(* standardize_columns.                                                    *)
(***************************************************************************)
\* the columns the loop of lines 75-82 found, one per target (NoVariant: none)
FoundIn(cols, keys, pick) ==
    << >> \o [ n \in 1..Len(TARGETS) |->
                 IF pick[n] = NoVariant THEN NoVariant ELSE ColsNorm(cols, keys, pick[n]) ]

Found(t, pick) == FoundIn(t.cols, NormalizedHeaders(t.cols), pick)

\* mapping[found] = target for each target that found a column, in the
\* dictionary's order: a later target overwrites an earlier one
MappingFrom(found, hit) ==
    [ h \in { found[n] : n \in hit } |->
        TARGETS[CHOOSE n \in hit : found[n] = h /\ \A m \in hit : found[m] = h => m <= n] ]

\* mapping (line 74-82)
BuildMapping(t, pick) ==
    MappingFrom(Found(t, pick), { n \in 1..Len(TARGETS) : pick[n] # NoVariant })

\* df.rename(columns=mapping): the headers after the rename
Rename(cols, map) ==
    << >> \o [ i \in 1..Len(cols) |->
                 IF cols[i] \in DOMAIN map THEN map[cols[i]] ELSE cols[i] ]

\* the canonical columns the loop of lines 88-90 adds, in its iteration order
MissingColumns(cols, needed) == SelectSeq(needed, LAMBDA c : c \notin Range(cols))

\* lines 88-90: df2[needed] = "" for each needed column that is absent
AddMissing(cols, rows, needed) ==
    LET missing == MissingColumns(cols, needed)
    IN  Frame(cols \o missing,
              << >> \o [ r \in 1..Len(rows) |->
                          rows[r] \o [ j \in 1..Len(missing) |-> Some(<< >>) ] ])

\* df2[c] is a DataFrame, not a Series, when two columns are named c:
\* DataFrame has no .str accessor and line 94 raises AttributeError
HasDuplicateColumns(cols) ==
    \E i, j \in 1..Len(cols) : i # j /\ cols[i] = cols[j]

\* a mutant of line 94: the cell is not stripped
CleanCellNoStrip(c) == IF c = None THEN Some(<< >>) ELSE c

\* line 94 on one cell: .fillna("").astype(str).str.strip()
CleanCell(c) == IF c = None THEN Some(<< >>) ELSE Some(Strip(c[1]))

CleanRows(rows) ==
    << >> \o [ r \in 1..Len(rows) |->
                 << >> \o [ j \in 1..Len(rows[r]) |-> CleanCell(rows[r][j]) ] ]

\* line 70: pd.DataFrame(columns=[*DISPLAY_ORDER, "productos"])
EmptyFrame == Frame(DISPLAY_ORDER \o << T_productos >>, << >>)

\* lines 93-94 over the whole frame: raises on a duplicated column name,
\* else every cell is cleaned.  [raised, table]; when it raises, table is df2
\* as it stood (it is never returned)
CleanFrame(df2) ==
    IF HasDuplicateColumns(df2.cols)
    THEN [ raised |-> TRUE, table |-> df2 ]
    ELSE [ raised |-> FALSE, table |-> Frame(df2.cols, CleanRows(df2.rows)) ]

\* standardize_columns(t), with the iteration orders of its two sets given by
\* pick and needed
standardize_columns(t, pick, needed) ==
    IF IsNoneOrEmpty(t) THEN [ raised |-> FALSE, table |-> EmptyFrame ]
    ELSE CHOOSE out \in
            { CleanFrame(df2) :
                df2 \in { AddMissing(Rename(t.cols, BuildMapping(t, pick)),
                                     t.rows, needed) } } : TRUE

\* the rename mapping the call records (none on the early return of line 70)
MappingOf(t, pick) ==
    IF IsNoneOrEmpty(t) THEN << >> ELSE BuildMapping(t, pick)

\* the picks one call may make, given the iteration order revealed so far
CallPicks(t, before) ==
    IF IsNoneOrEmpty(t) THEN { [ n \in 1..Len(TARGETS) |-> NoVariant ] }
    ELSE { p \in Picks(ColsNormKeys(t)) : ConsistentPick(p, ColsNormKeys(t), before) }

OrderAfter(t, pick, before) ==
    IF IsNoneOrEmpty(t) THEN before ELSE RevealedOrder(pick, ColsNormKeys(t), before)

\* iteration orders of set(DISPLAY_ORDER + ["productos"]) (line 88)
NeededOrders ==
    { DISPLAY_ORDER \o << T_productos >>,
      << T_productos, T_direccion, T_ciudad, T_provincia_estado, T_pais,
         T_email, T_telefono, T_web, T_nombre >> }

(***************************************************************************)
(* The aliaser on its own: standardize_columns applied to a raw table, and *)
(* then to its own output, within one process.                             *)
(***************************************************************************)
\* headers of the raw tables: a variant of "nombre", three headers of
\* "email" (two with one key, one with another variant), a pass-through
AliasHeaders ==
    { <<"P","r","o","v","e","e","d","o","r">>,
      <<"e","m","a","i","l">>,
      <<"E","m","a","i","l">>,
      <<"M","a","i","l">>,
      <<"O","b","s">> }

\* headers as spreadsheets spell them: accents, capitals, padding
SpelledHeaders ==
    { <<"C","o","r","r","e","o"," ","E","l","e","c","t","r","o'","n","i","c","o">>,
      <<" ","R","a","z","o'","n"," ","S","o","c","i","a","l"," ">>,
      <<"P","r","o","v","i","n","c","i","a"," ","/"," ","E","s","t","a","d","o">>,
      <<"P","R","O","V","I","N","C","I","A"," "," ","/"," "," ","E","S","T","A","D","O">>,
      <<"T","e","l","e'","f","o","n","o","/","W","h","a","t","s","A","p","p">> }

\* cells of the raw tables: a missing value, a padded string
AliasCells == { None, Some(<<" ","a"," ","b"," ">>) }

\* str.upper() of one character
UpperChar(c) ==
    IF c \in LowerSet THEN UpperLetters[IndexOf(LowerLetters, c)]
    ELSE IF c \in AccentedLowerSet THEN AccentedUpper[IndexOf(AccentedLower, c)]
    ELSE c

Upper(s) == << >> \o [ i \in 1..Len(s) |-> UpperChar(s[i]) ]

AllVariants == UNION { COL_ALIASES(t) : t \in Range(TARGETS) }

\* sequences of at most n distinct headers
RECURSIVE HeaderSeqs(_)
HeaderSeqs(n) ==
    IF n = 0 THEN { << >> }
    ELSE HeaderSeqs(n - 1) \cup
         { Append(hs, h) : hs \in { x \in HeaderSeqs(n - 1) : Len(x) = n - 1 },
                           h \in AliasHeaders }

\* at most MaxRows rows of n cells
RowSeqs(n) == UNION { [ 1..k -> [ 1..n -> AliasCells ] ] : k \in 0..MaxRows }

DistinctHeaders(hs) == \A i, j \in 1..Len(hs) : i # j => hs[i] # hs[j]

\* raw tables with several columns
MultiColumnTables ==
    UNION { { Frame(hs, rows) : rows \in RowSeqs(Len(hs)) } :
            hs \in { x \in HeaderSeqs(MaxCols) : DistinctHeaders(x) } }

\* raw tables with one column and one row, headed by each declared variant
\* as written and in capitals, and by each spelled header
VariantTables ==
    { Frame(<< h >>, << << c >> >>) :
        h \in AllVariants \cup { Upper(v) : v \in AllVariants } \cup SpelledHeaders,
        c \in AliasCells }

AliasTables == { NoneDF } \cup MultiColumnTables \cup VariantTables

NotCalled == [ raised |-> FALSE, table |-> NoneDF ]

\* the order of the process's set(DISPLAY_ORDER + ["productos"]): fixed once
\* the set has been iterated, any of NeededOrders before
NotIterated == << >>
NeededChoices(t, needed) ==
    IF IsNoneOrEmpty(t) THEN { needed }
    ELSE IF needed = NotIterated THEN NeededOrders ELSE { needed }

InitAlias ==
    /\ pc = "alias_in"
    /\ raw_df \in AliasTables
    /\ neededIter = NotIterated
    /\ iterBefore = {}
    /\ df = NotCalled
    /\ df_again = NotCalled
    /\ mapping = << >>
    /\ localExists = FALSE
    /\ localReadable = FALSE
    /\ up = "none"
    /\ workbook = None
    /\ source = "none"
    /\ attempts = << >>
    /\ executed = {}
    /\ shown = << >>
    /\ selected_country = "none"
    /\ q = << >>
    /\ terms = << >>
    /\ results = << >>

\* df = standardize_columns(raw_df)
StandardizeOnce ==
    /\ pc = "alias_in"
    /\ \E pick \in CallPicks(raw_df, iterBefore),
          needed \in NeededChoices(raw_df, neededIter) :
         /\ df' = standardize_columns(raw_df, pick, needed)
         /\ mapping' = MappingOf(raw_df, pick)
         /\ iterBefore' = OrderAfter(raw_df, pick, iterBefore)
         /\ neededIter' = needed
    /\ pc' = "alias_once"
    /\ UNCHANGED << localExists, localReadable, up, workbook, source, attempts,
                    executed, shown, selected_country, raw_df,
                    df_again, q, terms, results >>

\* df_again = standardize_columns(df), in the same process
StandardizeAgain ==
    /\ pc = "alias_once"
    /\ ~ df.raised
    /\ \E pick \in CallPicks(df.table, iterBefore),
          needed \in NeededChoices(df.table, neededIter) :
         /\ df_again' = standardize_columns(df.table, pick, needed)
         /\ iterBefore' = OrderAfter(df.table, pick, iterBefore)
         /\ neededIter' = needed
    /\ pc' = "alias_twice"
    /\ UNCHANGED << localExists, localReadable, up, workbook, source, attempts,
                    executed, shown, selected_country, raw_df, df, mapping,
                    q, terms, results >>

NextAlias == StandardizeOnce \/ StandardizeAgain

SpecAlias == InitAlias /\ [][NextAlias]_vars

(***************************************************************************)
(* normalize_text, tokenize_query, match_row.                              *)
(***************************************************************************)
\* unicodedata.normalize("NFKD", .) of one character
DecomposeChar(c) ==
    IF c \in AccentedLowerSet THEN << PlainLower[IndexOf(AccentedLower, c)], ACUTE >>
    ELSE IF c \in AccentedUpperSet THEN << PlainUpper[IndexOf(AccentedUpper, c)], ACUTE >>
    ELSE << c >>

NFKD(s) == Flatten([ i \in 1..Len(s) |-> DecomposeChar(s[i]) ])

\* unicodedata.combining(ch) is nonzero
Combining(c) == c = ACUTE

\* str.casefold()
Casefold(s) == << >> \o [ i \in 1..Len(s) |-> LowerChar(s[i]) ]

\* normalize_text (its argument is a string: a cleaned cell or the query)
normalize_text(s) == Casefold(SelectSeq(NFKD(Strip(s)), LAMBDA c : ~ Combining(c)))

\* the character class of line 112: \s, comma, semicolon, U+200B
Separators == Whitespace \cup { ",", ";", ZWSP }

RECURSIVE SkipSeparators(_)
SkipSeparators(s) ==
    IF s = << >> THEN << >>
    ELSE IF Head(s) \in Separators THEN SkipSeparators(Tail(s)) ELSE s

\* re.split on one or more separators, cur being the part read so far
RECURSIVE ReSplit(_, _)
ReSplit(s, cur) ==
    IF s = << >> THEN << cur >>
    ELSE IF Head(s) \in Separators
         THEN << cur >> \o ReSplit(SkipSeparators(Tail(s)), << >>)
         ELSE ReSplit(Tail(s), Append(cur, Head(s)))

\* tokenize_query
tokenize_query(query) ==
    SelectSeq(ReSplit(normalize_text(query), << >>), LAMBDA part : part # << >>)

\* t in p
Contains(p, t) ==
    \E k \in 0..(Len(p) - Len(t)) : SubSeq(p, k + 1, k + Len(t)) = t

\* a mutant of match_row: a term must be a whole word of the field
match_row_whole_word(productos_text, termlist) ==
    \A k \in 1..Len(termlist) :
        termlist[k] \in Range(tokenize_query(productos_text))

\* match_row (productos_text is a string: `or ""` changes nothing)
match_row(productos_text, termlist) ==
    \A k \in 1..Len(termlist) :
        Contains(normalize_text(productos_text), termlist[k])

(***************************************************************************)
(* The page script, lines 126-211.                                         *)
(***************************************************************************)
NoWorkbook == [ loaded |-> FALSE, sheets |-> << >> ]
Loaded(sheets) == [ loaded |-> TRUE, sheets |-> sheets ]

\* list(workbook.keys())
CountryList(wb) == [ i \in 1..Len(wb.sheets) |-> wb.sheets[i].name ]

\* workbook.get(selected_country)
SheetOf(wb, country) ==
    wb.sheets[CHOOSE i \in 1..Len(wb.sheets) : wb.sheets[i].name = country].table

\* the position of a column of a table without duplicated columns
ColumnIndex(tbl, c) == CHOOSE j \in 1..Len(tbl.cols) : tbl.cols[j] = c

\* the string of a cleaned cell
CellText(tbl, r, c) == tbl.rows[r][ColumnIndex(tbl, c)][1]

\* a row of df restricted to DISPLAY_ORDER
DisplayRow(tbl, r) ==
    << >> \o [ j \in 1..Len(DISPLAY_ORDER) |-> tbl.rows[r][ColumnIndex(tbl, DISPLAY_ORDER[j])] ]

\* a mutant of lines 179-183: the filter is applied without the test of
\* line 179, so that an empty term list matches every row
FilterAlways(tbl, termlist) ==
    LET hit == { r \in 1..Len(tbl.rows) : match_row(CellText(tbl, r, T_productos), termlist) }
    IN  Frame(DISPLAY_ORDER,
              << >> \o [ k \in 1..Cardinality(hit) |->
                           DisplayRow(tbl, CHOOSE r \in hit :
                                             Cardinality({ x \in hit : x < r }) = k - 1) ])

\* line 177: terms = tokenize_query(q) if q else []
SearchTerms(query) == IF query # << >> THEN tokenize_query(query) ELSE << >>

\* lines 179-183: the rows of df that match, over DISPLAY_ORDER, in df's
\* order and re-indexed; no row when there is no term
SearchResults(tbl, termlist) ==
    IF termlist # << >>
    THEN LET mask == [ r \in 1..Len(tbl.rows) |->
                         match_row(CellText(tbl, r, T_productos), termlist) ]
             kept == SelectSeq([ r \in 1..Len(tbl.rows) |-> r ], LAMBDA r : mask[r])
         IN  Frame(DISPLAY_ORDER,
                   << >> \o [ k \in 1..Len(kept) |-> DisplayRow(tbl, kept[k]) ])
    ELSE Frame(DISPLAY_ORDER, << >>)

\* a mutant of lines 192-197: the empty result is tested without the terms
ResultStateEmptyFirst(termlist, res) ==
    IF res.rows = << >> THEN "no_results"
    ELSE IF termlist = << >> THEN "awaiting"
    ELSE "found"

\* lines 192-197: which of the three messages the results section shows
ResultState(termlist, res) ==
    IF termlist # << >> /\ res.rows = << >> THEN "no_results"
    ELSE IF termlist = << >> THEN "awaiting"
    ELSE "found"

\* the product cells of the sheets of a run
RawFields ==
    { None,
      Some(<<"l","a","t","a","s"," ","d","e"," ","a","l","u","m","i","n","i","o">>),
      Some(<<"l","a","t","e","x">>),
      Some(<<"l","a","t","o">>),
      Some(<<" ","M","a","l","t","a",","," ","L","A'","T","A","S"," ">>) }

\* the queries typed in a run
Queries ==
    { << >>,
      <<",">>,
      <<" ",";"," ">>,
      <<" ">>,
      <<"l","a","t","a">>,
      <<"l","a","t","a","s">>,
      <<"L","A'","T","A">>,
      <<"l","a","t">>,
      <<"l","a","t","a",","," ","m","a","l","t","a">>,
      <<"d","e","zwsp","l","a","t">>,
      <<"c","o","b","r","e">> }

\* the supplier named in row r
SupplierName(r) == << "P", LowerLetters[r] >>

\* the sheets of a run: a supplier column and a product column, at most
\* MaxSheetRows rows
SupplierTables ==
    UNION { { Frame(<< <<"P","r","o","v","e","e","d","o","r">>, <<"P","r","o","d","u","c","t","o">> >>,
                    [ r \in 1..k |-> << Some(SupplierName(r)), cells[r] >> ]) :
              cells \in [ 1..k -> RawFields ] } : k \in 0..MaxSheetRows }

\* a sheet whose two headers end up with one name
ClashTable ==
    Frame(<< <<"p","r","o","d","u","c","t","o","s">>, <<"P","r","o","d","u","c","t","o","s">> >>,
          << << Some(<<"l","a","t","o">>), Some(<<"l","a","t","e","x">>) >> >>)

SheetTables == SupplierTables \cup { ClashTable }

\* the workbooks a file may hold: no sheet, one sheet, two sheets
Workbooks ==
    { << >> }
    \cup { << [ name |-> "Argentina", table |-> t ] >> : t \in SheetTables }
    \cup { << [ name |-> "Argentina", table |-> ClashTable ],
              [ name |-> "Chile", table |-> t ] >> :
           t \in { x \in SupplierTables : Len(x.rows) <= 1 } }

Init ==
    /\ pc = "load_local"
    /\ localExists \in BOOLEAN
    /\ localReadable \in BOOLEAN
    /\ up \in { "none", "good", "corrupt" }
    /\ workbook = NoWorkbook
    /\ source = "none"
    /\ attempts = << >>
    /\ executed = {}
    /\ shown = << >>
    /\ selected_country = "none"
    /\ raw_df = NoneDF
    /\ df = NotCalled
    /\ df_again = NotCalled
    /\ mapping = << >>
    /\ iterBefore = {}
    /\ neededIter = NotIterated
    /\ q = << >>
    /\ terms = << >>
    /\ results = Frame(DISPLAY_ORDER, << >>)

\* lines 130-134: the local file, when it exists, is read; a read error is
\* caught and shown as a warning
LoadLocal ==
    /\ pc = "load_local"
    /\ IF localExists
       THEN IF localReadable
            THEN /\ \E sheets \in Workbooks : workbook' = Loaded(sheets)
                 /\ source' = "local"
                 /\ attempts' = Append(attempts, "local_ok")
                 /\ shown' = shown
            ELSE /\ workbook' = workbook
                 /\ source' = source
                 /\ attempts' = Append(attempts, "local_failed")
                 /\ shown' = Append(shown, "warning_local")
       ELSE UNCHANGED << workbook, source, attempts, shown >>
    /\ pc' = "load_upload"
    /\ UNCHANGED << localExists, localReadable, up, executed, selected_country,
                    raw_df, df, mapping, iterBefore, neededIter, df_again,
                    q, terms, results >>

\* lines 137-145: without a workbook the uploader is shown, and an uploaded
\* file is read; a read error is caught and shown as an error
LoadUpload ==
    /\ pc = "load_upload"
    /\ IF ~ workbook.loaded
       THEN IF up = "none"
            THEN /\ shown' = Append(shown, "info_upload")
                 /\ UNCHANGED << workbook, source, attempts >>
            ELSE IF up = "good"
                 THEN /\ \E sheets \in Workbooks : workbook' = Loaded(sheets)
                      /\ source' = "upload"
                      /\ attempts' = Append(attempts, "upload_ok")
                      /\ shown' = Append(shown, "info_upload")
                 ELSE /\ workbook' = workbook
                      /\ source' = source
                      /\ attempts' = Append(attempts, "upload_failed")
                      /\ shown' = shown \o << "info_upload", "error_upload" >>
       ELSE UNCHANGED << workbook, source, attempts, shown >>
    /\ pc' = "check_workbook"
    /\ UNCHANGED << localExists, localReadable, up, executed, selected_country,
                    raw_df, df, mapping, iterBefore, neededIter, df_again,
                    q, terms, results >>

\* lines 147-148: st.stop() without a workbook
CheckWorkbook ==
    /\ pc = "check_workbook"
    /\ pc' = IF workbook.loaded THEN "select_country" ELSE "stopped"
    /\ UNCHANGED << localExists, localReadable, up, workbook, source, attempts,
                    executed, shown, selected_country, raw_df, df, mapping,
                    iterBefore, neededIter, df_again, q, terms, results >>

\* lines 153-164: the selectbox over the sheet names (any of them may be
\* selected) and the selected sheet; st.stop() on no sheet or an empty sheet
SelectCountry ==
    /\ pc = "select_country"
    /\ IF Len(workbook.sheets) = 0
       THEN /\ shown' = Append(shown, "error_no_sheets")
            /\ pc' = "stopped"
            /\ UNCHANGED << executed, selected_country, raw_df >>
       ELSE \E country \in Range(CountryList(workbook)) :
              /\ selected_country' = country
              /\ raw_df' = SheetOf(workbook, country)
              /\ executed' = executed \cup { "country" }
              /\ IF IsNoneOrEmpty(SheetOf(workbook, country))
                 THEN shown' = Append(shown, "warning_empty_sheet") /\ pc' = "stopped"
                 ELSE shown' = shown /\ pc' = "standardize"
    /\ UNCHANGED << localExists, localReadable, up, workbook, source, attempts,
                    df, mapping, iterBefore, neededIter, df_again, q, terms, results >>

\* line 166: df = standardize_columns(raw_df); an exception ends the run
StandardizeSheet ==
    /\ pc = "standardize"
    /\ \E pick \in CallPicks(raw_df, iterBefore),
          needed \in NeededChoices(raw_df, neededIter) :
         /\ df' = standardize_columns(raw_df, pick, needed)
         /\ mapping' = MappingOf(raw_df, pick)
         /\ iterBefore' = OrderAfter(raw_df, pick, iterBefore)
         /\ neededIter' = needed
         /\ pc' = IF standardize_columns(raw_df, pick, needed).raised
                  THEN "raised" ELSE "search"
    /\ executed' = executed \cup { "alias" }
    /\ UNCHANGED << localExists, localReadable, up, workbook, source, attempts,
                    shown, selected_country, raw_df, df_again, q, terms, results >>

\* lines 171-183: the query, its terms, the filtered rows
Search ==
    /\ pc = "search"
    /\ \E query \in Queries :
         /\ q' = query
         /\ terms' = SearchTerms(query)
         /\ results' = SearchResults(df.table, SearchTerms(query))
    /\ executed' = executed \cup { "filter" }
    /\ pc' = "render"
    /\ UNCHANGED << localExists, localReadable, up, workbook, source, attempts,
                    shown, selected_country, raw_df, df, mapping, iterBefore,
                    neededIter, df_again >>

\* lines 188-211: the results section
Render ==
    /\ pc = "render"
    /\ shown' = Append(shown, ResultState(terms, results))
    /\ executed' = executed \cup { "display" }
    /\ pc' = "done"
    /\ UNCHANGED << localExists, localReadable, up, workbook, source, attempts,
                    selected_country, raw_df, df, mapping, iterBefore,
                    neededIter, df_again, q, terms, results >>

Next ==
    \/ LoadLocal
    \/ LoadUpload
    \/ CheckWorkbook
    \/ SelectCountry
    \/ StandardizeSheet
    \/ Search
    \/ Render

Spec == Init /\ [][Next]_vars

(***************************************************************************)
(* Properties of the aliaser, checked under SpecAlias.                     *)
(***************************************************************************)
AliasCalled == pc \in { "alias_once", "alias_twice" }

\* the nine canonical columns, as DISPLAY_ORDER and line 70 spell them
CanonicalColumns == Range(DISPLAY_ORDER) \cup { T_productos }

Trimmed(s) == s = << >> \/ (s[1] \notin Whitespace /\ s[Len(s)] \notin Whitespace)

AllCanonicalAndTrimmed(tbl) ==
    /\ ~ tbl.none
    /\ CanonicalColumns \subseteq Range(tbl.cols)
    /\ \A r \in 1..Len(tbl.rows) :
         /\ Len(tbl.rows[r]) = Len(tbl.cols)
         /\ \A j \in 1..Len(tbl.cols) :
              tbl.rows[r][j] # None /\ Trimmed(tbl.rows[r][j][1])

C5_NeverRaises ==
    /\ ~ df.raised
    /\ ~ df_again.raised
    /\ ~ HasDuplicateColumns(df.table.cols)
    /\ ~ HasDuplicateColumns(df_again.table.cols)

\* C6: standardize_columns applied to its own output returns that output:
\* same columns in the same order, same cells.
C6_Idempotent ==
    pc = "alias_twice" => (~ df_again.raised /\ df_again.table = df.table)

\* the columns of raw_df whose normalized header is a variant of target t
Candidates(t) ==
    { i \in 1..Len(raw_df.cols) : NormalizeCol(raw_df.cols[i]) \in COL_ALIASES(t) }

RenamedTo(i, t) ==
    raw_df.cols[i] \in DOMAIN mapping /\ mapping[raw_df.cols[i]] = t

\* C9: when two source columns normalize to variants of the same canonical
\* target, the later one in column order is renamed to the target and the
\* earlier one keeps its header.
C9_LaterColumnWins ==
    (pc = "alias_once" /\ ~ IsNoneOrEmpty(raw_df)) =>
        \A t \in Range(TARGETS) : \A i, j \in Candidates(t) :
            (i < j /\ Candidates(t) = { i, j }) =>
                (RenamedTo(j, t) /\ raw_df.cols[i] \notin DOMAIN mapping)

\* C9, amended: of the source columns that normalize to variants of one
\* canonical target exactly one is renamed to it, and it is the last column
\* bearing its normalized header; the others keep their headers.  Between
\* columns with different variants the position does not decide.
C9_OneRenamedLastOfItsKey ==
    (AliasCalled /\ ~ IsNoneOrEmpty(raw_df)) =>
        \A t \in Range(TARGETS) :
            Candidates(t) # {} =>
                \E i \in Candidates(t) :
                    /\ RenamedTo(i, t)
                    /\ \A j \in Candidates(t) :
                         j > i => NormalizeCol(raw_df.cols[j]) # NormalizeCol(raw_df.cols[i])
                    /\ \A j \in Candidates(t) \ { i } :
                         raw_df.cols[j] \notin DOMAIN mapping

\* C9 witness: two columns with different variants of one target were
\* standardized and the earlier one was renamed.
C9_Witness ==
    /\ pc = "alias_once"
    /\ ~ df.raised
    /\ ~ IsNoneOrEmpty(raw_df)
    /\ \E t \in Range(TARGETS) : \E i, j \in Candidates(t) :
         /\ i < j
         /\ NormalizeCol(raw_df.cols[i]) # NormalizeCol(raw_df.cols[j])
         /\ RenamedTo(i, t)

\* C10: a populated table whose only header is a declared variant of a
\* canonical column, in any letter case, has that column renamed to the
\* canonical name.
C10_EveryVariantAccepted ==
    (pc = "alias_once" /\ Len(raw_df.cols) = 1 /\ Len(raw_df.rows) >= 1) =>
        \A t \in Range(TARGETS) :
            Lower(raw_df.cols[1]) \in COL_ALIASES(t) =>
                (~ df.raised /\ df.table.cols[1] = t)

(***************************************************************************)
(* Properties of the page script, checked under Spec.                      *)
(***************************************************************************)
Searched == pc \in { "render", "done" }

\* the rows of df whose normalized product field contains every token of q
MatchingRows ==
    { r \in 1..Len(df.table.rows) :
        \A k \in 1..Len(tokenize_query(q)) :
            Contains(normalize_text(CellText(df.table, r, T_productos)),
                     tokenize_query(q)[k]) }

KthOf(S, k) == CHOOSE r \in S : Cardinality({ x \in S : x < r }) = k - 1

\* row r of df is among the results (suppliers differ from row to row)
InResults(r) ==
    \E k \in 1..Len(results.rows) : results.rows[k] = DisplayRow(df.table, r)

\* C1: when tokenize_query(q) is empty the result has no row; otherwise the
\* result is exactly the rows of the canonical table whose normalized
\* product field contains every token, in the table's order.
C1_ExactlyTheMatchingRows ==
    Searched =>
        IF tokenize_query(q) = << >> THEN results.rows = << >>
        ELSE /\ Len(results.rows) = Cardinality(MatchingRows)
             /\ \A k \in 1..Len(results.rows) :
                  results.rows[k] = DisplayRow(df.table, KthOf(MatchingRows, k))

\* C1 witness: a query of two terms has kept some rows of a table and
\* dropped others.
C1_Witness ==
    /\ pc = "done"
    /\ Len(tokenize_query(q)) >= 2
    /\ Len(results.rows) >= 1
    /\ Len(results.rows) < Len(df.table.rows)

Q_lata == <<"l","a","t","a">>
Q_latas == <<"l","a","t","a","s">>
F_latas_de_aluminio == <<"l","a","t","a","s"," ","d","e"," ","a","l","u","m","i","n","i","o">>
F_latex == <<"l","a","t","e","x">>
F_lato == <<"l","a","t","o">>

ProductOf(r) == CellText(df.table, r, T_productos)

\* C2: the term "lata" matches the fields "latas de aluminio" and "latex";
\* the term "latas" does not match the field "lato".
C2_LataMatchesLatex ==
    Searched =>
        \A r \in 1..Len(df.table.rows) :
            /\ (q = Q_lata /\ ProductOf(r) \in { F_latas_de_aluminio, F_latex })
                  => InResults(r)
            /\ (q = Q_latas /\ ProductOf(r) = F_lato) => ~ InResults(r)

\* C2, amended: the term "lata" matches the field "latas de aluminio" and
\* does not match "latex", of which it is no substring; the term "latas"
\* does not match the field "lato".
C2_SubstringSemantics ==
    Searched =>
        \A r \in 1..Len(df.table.rows) :
            /\ (q = Q_lata /\ ProductOf(r) = F_latas_de_aluminio) => InResults(r)
            /\ (q = Q_lata /\ ProductOf(r) = F_latex) => ~ InResults(r)
            /\ (q = Q_latas /\ ProductOf(r) = F_lato) => ~ InResults(r)

\* C2 witness: "lata" was searched in a table holding "latas de aluminio"
\* and "latex", and one row was found.
C2_Witness ==
    /\ pc = "done"
    /\ q = Q_lata
    /\ \E r \in 1..Len(df.table.rows) : ProductOf(r) = F_latas_de_aluminio
    /\ \E r \in 1..Len(df.table.rows) : ProductOf(r) = F_latex
    /\ Len(results.rows) = 1

AwaitingShown == "awaiting" \in Range(shown)
NoResultsShown == "no_results" \in Range(shown)

\* C3: the results section shows "awaiting input" exactly when the query
\* string is empty; a non-empty query with no row, separators only
\* included, shows "no results" and never "awaiting input".
C3_AwaitingIffEmptyQuery ==
    pc = "done" =>
        /\ AwaitingShown <=> q = << >>
        /\ (q # << >> /\ results.rows = << >>) => (NoResultsShown /\ ~ AwaitingShown)

\* C3, amended: the results section shows "awaiting input", with an empty
\* result, exactly when the query has no term (it is empty or made only of
\* separators); a query with a term and no row shows "no results" and never
\* "awaiting input".
C3_AwaitingIffNoTerms ==
    pc = "done" =>
        /\ AwaitingShown <=> tokenize_query(q) = << >>
        /\ AwaitingShown => results.rows = << >>
        /\ (tokenize_query(q) # << >> /\ results.rows = << >>)
              => (NoResultsShown /\ ~ AwaitingShown)

\* C3 witness: a run ended on a query of separators only.
C3_Witness ==
    /\ pc = "done"
    /\ q # << >>
    /\ tokenize_query(q) = << >>
    /\ AwaitingShown

\* C7: whenever the local file exists, the upload is never the source of
\* the workbook.
C7_LocalFilePriority == localExists => source # "upload"

\* C8: in a run in which a load attempt raised a read error there is no
\* workbook afterwards and no downstream block is executed.
C8_FailedLoadHalts ==
    (\E i \in 1..Len(attempts) : attempts[i] \in { "local_failed", "upload_failed" })
        => (~ workbook.loaded /\ executed = {})

====
